---- MODULE Spec2Model ----
(***************************************************************************)
(* Pool pump / salt-cell controller (Poolmain.py).                         *)
(*                                                                         *)
(* The controller is three kinds of thread sharing the dictionary `state`: *)
(* the scheduler loop, the cell loop and the Flask request handlers.       *)
(* Every `with state_lock:` block of the source is one atomic step here;   *)
(* the code between two blocks of one function is a control point (pc).    *)
(*                                                                         *)
(* Spec       runs the operations one at a time (a scheduler tick or a     *)
(*            request runs to completion before the next one starts).      *)
(* SpecConc   interleaves the scheduler, the cell loop and one request     *)
(*            handler freely at the granularity of the lock blocks.        *)
(* SpecTimers interleaves the scheduler with mode requests and /status.    *)
(* SpecDst    is Spec with one timer request and /set_dst requests.        *)
(* SpecPwm    is the /pwm handler.                                         *)
(* SpecLoad   is load_settings() at start-up, on any document.             *)
(* SpecLock   is the lock skeleton of all threads: where each function     *)
(*            acquires and releases state_lock and what it calls.          *)
(***************************************************************************)
EXTENDS Integers, Sequences, FiniteSets, TLC

\* ------------------------------------------------------------------ time
\* The clock counts SubSecond ticks per second, so that the truncation of
\* int(delta.total_seconds()) in /status is visible.
SubSecond == 2
SECOND == SubSecond
MINUTE == 60 * SECOND
HOUR == 60 * MINUTE

TIMEZONE_OFFSET == 10
MANUAL_AUTO_OFF_HOURS == 8
BOOST_HOURS == 3
CELL_WINDOW_MINUTES == 15

\* Bounds of the serial specification: the clock runs MaxHours hours and at
\* most MaxCmds requests that change Settings are posted.
MaxHours == 8
MaxCmds == 2
\* Bounds of the interleaved specification: the clock runs MaxQuarters
\* quarters of an hour and at most MaxCmdsConc such requests are posted.
MaxQuarters == 2
MaxCmdsConc == 1
\* Bound of the /pwm specification: the duty values posted run from
\* MaxOver below 0 to MaxOver above 100.
MaxOver == 3

\* ------------------------------------------------------- stored timestamps
\* A deadline field of Settings holds None, an ISO-8601 string written by
\* datetime.isoformat(), or (only when read from settings.json) a string
\* that datetime.fromisoformat() rejects or that cannot be compared with
\* the timezone-aware now_local().
None == [k |-> "none", v |-> 0]
Unparseable == [k |-> "bad", v |-> 0]
isoformat(t) == [k |-> "iso", v |-> t]
Truthy(d) == d.k # "none"
Parses(d) == d.k = "iso"
fromisoformat(d) == d.v

\* ---------------------------------------------------------------- settings
Hours == 0 .. 23
Sched(S) == [h \in Hours |-> h \in S]
AllOff == Sched({})
EvenHours == Sched({h \in Hours : h % 2 = 0})
Schedules == {AllOff, EvenHours}

DEFAULT_SETTINGS ==
  [mode |-> "auto", manual_state |-> FALSE, manual_on_until |-> None,
   schedule |-> AllOff, boost_until |-> None, pwm_duty |-> 0, dst |-> FALSE]

\* The documents load_settings() can return at start-up that the model
\* starts from: no file (the defaults), and files left by an earlier run or
\* edited by hand, among them deadlines that do not parse.
LoadedDocs ==
  { DEFAULT_SETTINGS,
    [DEFAULT_SETTINGS EXCEPT !.mode = "boost", !.boost_until = Unparseable,
                             !.schedule = EvenHours],
    [DEFAULT_SETTINGS EXCEPT !.mode = "manual", !.manual_state = TRUE,
                             !.manual_on_until = Unparseable,
                             !.schedule = EvenHours, !.dst = TRUE] }

\* Documents left by an earlier run of the program with a timer pending:
\* a boost that ends a quarter of an hour after start-up, and a manual ON
\* that ends half an hour after it.
PendingDocs ==
  { [DEFAULT_SETTINGS EXCEPT
       !.mode = "boost", !.schedule = EvenHours,
       !.boost_until = isoformat(TIMEZONE_OFFSET * HOUR + 15 * MINUTE)],
    [DEFAULT_SETTINGS EXCEPT
       !.mode = "manual", !.manual_state = TRUE,
       !.manual_on_until = isoformat(TIMEZONE_OFFSET * HOUR + 30 * MINUTE)] }

\* ------------------------------------------------------------ load_settings
\* settings.json as json.load() returns it. A document that is a JSON
\* object has the keys `has`; the value of its key "schedule" is a JSON
\* list of booleans, null or a number, and `val` holds the values of its
\* other keys.
Keys == {"mode", "manual_state", "manual_on_until", "schedule", "boost_until",
         "pwm_duty", "dst"}
JsonList(n, b) == [k |-> "list", v |-> [i \in 1 .. n |-> b]]
JsonNull == [k |-> "null", v |-> <<>>]
JsonInt == [k |-> "int", v |-> <<>>]
EvenList == [k |-> "list", v |-> [i \in 1 .. 24 |-> (i - 1) % 2 = 0]]
ListLens == {0, 23, 24, 25}
ScheduleValues ==
  {JsonList(n, TRUE) : n \in ListLens} \cup {EvenList, JsonNull, JsonInt}
StoredValues ==
  { [DEFAULT_SETTINGS EXCEPT
       !.mode = "manual", !.manual_state = TRUE,
       !.manual_on_until = isoformat(TIMEZONE_OFFSET * HOUR + 30 * MINUTE),
       !.pwm_duty = 40, !.dst = TRUE],
    [DEFAULT_SETTINGS EXCEPT
       !.mode = "boost", !.boost_until = Unparseable, !.pwm_duty = 140] }
\* No file at all, and a file json.load() rejects.
NoFile == [kind |-> "missing"]
Corrupt == [kind |-> "corrupt"]
Docs ==
  {NoFile, Corrupt} \cup
  { [kind |-> "object", has |-> K, schedule |-> sv, val |-> v] :
      K \in SUBSET Keys, sv \in ScheduleValues, v \in StoredValues }

\* Lines 84-85 for a schedule value with a len(): 24 entries are kept, any
\* other number is replaced by [False]*24.
Normalise(sv) ==
  IF Len(sv.v) # 24 THEN AllOff ELSE [h \in Hours |-> sv.v[h + 1]]

\* Lines 81-83: a key the document lacks takes its default.
Field(d, k) == IF k \in d.has THEN d.val[k] ELSE DEFAULT_SETTINGS[k]
ScheduleField(d) ==
  IF "schedule" \in d.has THEN d.schedule ELSE JsonList(24, FALSE)

\* load_settings(), lines 77-89: no file, or an exception inside the try
\* block (json.load() of a corrupt file, len() of null or of a number),
\* gives DEFAULT_SETTINGS.copy().
load_settings(d) ==
  IF d.kind # "object" THEN DEFAULT_SETTINGS
  ELSE IF ScheduleField(d).k # "list" THEN DEFAULT_SETTINGS
  ELSE [mode |-> Field(d, "mode"),
        manual_state |-> Field(d, "manual_state"),
        manual_on_until |-> Field(d, "manual_on_until"),
        schedule |-> Normalise(ScheduleField(d)),
        boost_until |-> Field(d, "boost_until"),
        pwm_duty |-> Field(d, "pwm_duty"),
        dst |-> Field(d, "dst")]

\* The values of the form field `mode` of /set: "other" stands for every
\* value outside {auto, manual, boost}, a missing field included.
Modes == {"auto", "manual", "boost", "other"}

Threads == {"sched", "web", "cell"}
\* The threads of the lock skeleton: the three background loops and one
\* request handler.
LockThreads == {"sched", "cell", "hb", "web"}
Top(th) == IF th = "web" THEN "idle" ELSE "top"

VARIABLES
  settings,    \* state["settings"]
  file,        \* settings.json as last written (last_updated left out)
  pump_on,     \* state["pump_on"]
  pump_pin,    \* level last written to PUMP_PIN
  cell_on,     \* state["cell_on"]
  now,         \* datetime.utcnow() / time.time(), in clock ticks
  pc,          \* control point of each thread
  want,        \* argument `on` of the set_pump call a thread is inside
  dl,          \* scheduler: local boost_until / manual_until of the check
  pumpRead,    \* cell loop: local `pump`
  epoch_min,   \* cell loop: local `epoch_min` (0 when not computed)
  cell_state,  \* cell loop: local `cell_state`
  last_state,  \* cell loop: local `last_state`, <<>> for None
  resp,        \* JSON body of the /status response just returned
  lastCmd,     \* history: last request that changed Settings
  cmdAt,       \* history: clock when it was handled
  fired,       \* history: expiry checks that wrote Settings since then
  ncmd,        \* history: number of such requests so far
  duty,        \* /pwm: local `duty` of pwm_route
  pwm_hw,      \* duty cycle last given to pwm_ctrl
  pwmResp,     \* <<pwm_duty>> of the last /pwm response, <<>> before the first
  doc,         \* settings.json as found at start-up
  boot,        \* "start" before load_settings() has run, "loaded" after
  lock,        \* state_lock: the thread that holds it, or "free"
  todo         \* lock skeleton: what each thread has still to execute

pwmVars == <<duty, pwm_hw, pwmResp>>
bootVars == <<doc, boot>>
lockVars == <<lock, todo>>
\* The variables of the controller proper.
ctlVars == <<settings, file, pump_on, pump_pin, cell_on, now, pc, want, dl,
             pumpRead, epoch_min, cell_state, last_state, resp, lastCmd, cmdAt,
             fired, ncmd>>
vars == <<ctlVars, pwmVars, bootVars, lockVars>>
\* What the steps of the controller proper leave alone.
rest == <<pwmVars, bootVars, lockVars>>

cellVars == <<cell_on, pumpRead, epoch_min, cell_state, last_state>>
histVars == <<lastCmd, cmdAt, fired, ncmd>>

\* ------------------------------------------------------------------- clock
now_local == now + (TIMEZONE_OFFSET + (IF settings.dst THEN 1 ELSE 0)) * HOUR
hour(t) == (t \div HOUR) % 24

\* The JSON body of /status: a remaining time is <<h, m, s>>, null is <<>>.
\* NoResp stands for "no /status response was just returned".
NoResp == [code |-> 0, mode |-> "", pump_on |-> FALSE, cell_on |-> FALSE,
           pwm_duty |-> 0, boost_remaining |-> <<>>, manual_remaining |-> <<>>]

\* The state once the module is imported, lines 96-119, with Settings as
\* loaded taken from docs.
Started(docs) ==
  /\ settings \in docs
  /\ file = settings
  /\ pump_on = FALSE
  /\ pump_pin = FALSE
  /\ cell_on = FALSE
  /\ now = 0
  /\ pc = [th \in Threads |-> Top(th)]
  /\ want = [th \in {"sched", "web"} |-> FALSE]
  /\ dl = None
  /\ pumpRead = FALSE
  /\ epoch_min = 0
  /\ cell_state = FALSE
  /\ last_state = <<>>
  /\ resp = NoResp
  /\ lastCmd = "none"
  /\ cmdAt = 0
  /\ fired = {}
  /\ ncmd = 0
  /\ duty = 0
  /\ pwm_hw = settings.pwm_duty
  /\ pwmResp = <<>>
  /\ lock = "free"
  /\ todo = [th \in LockThreads |-> <<>>]

Start(docs) ==
  /\ Started(docs)
  /\ doc = NoFile
  /\ boot = "loaded"

Init == Start(LoadedDocs)
InitConc == Start(LoadedDocs \cup PendingDocs)

\* Start-up seen from before load_settings() has run: any document may be
\* on disk.
InitLoad ==
  /\ Started({DEFAULT_SETTINGS})
  /\ doc \in Docs
  /\ boot = "start"

\* Lines 96-102 and 114: state["settings"] = load_settings(), and the PWM
\* output is started with the loaded duty cycle.
Boot ==
  /\ boot = "start"
  /\ boot' = "loaded"
  /\ settings' = load_settings(doc)
  /\ file' = settings'
  /\ pwm_hw' = settings'.pwm_duty
  /\ UNCHANGED <<pump_on, pump_pin, cell_on, now, pc, want, dl, pumpRead,
                 epoch_min, cell_state, last_state, resp, lastCmd, cmdAt,
                 fired, ncmd, duty, pwmResp, doc>>
  /\ UNCHANGED lockVars

\* One step of thread th to control point p; p = Top(th) ends the
\* operation th was in.
Step(th, p) ==
  /\ pc' = [pc EXCEPT ![th] = p]
  /\ resp' = NoResp

\* save_settings(s): the whole document is rewritten from s.
save_settings(s) == file' = s

\* ------------------------------------------------ scheduler: expiry checks
\* (Variant used to test C1: the deadline itself does not count as expired.)
CheckBranchLate(d, expire, clear, skip) ==
  IF ~Truthy(d) THEN skip
  ELSE IF ~Parses(d) THEN clear
  ELSE IF now_local > fromisoformat(d) THEN expire
  ELSE skip

\* Where the check goes after it has read deadline d: nowhere when d is
\* None or empty, to the except branch when d does not parse, to the expiry
\* branch when now_local() >= d.
CheckBranch(d, expire, clear, skip) ==
  IF ~Truthy(d) THEN skip
  ELSE IF ~Parses(d) THEN clear
  ELSE IF now_local >= fromisoformat(d) THEN expire
  ELSE skip

\* check_boost_timeout, lines 166-171: read boost_until under the lock, then
\* parse it and compare it with now_local().
CbRead ==
  /\ pc["sched"] = "top"
  /\ dl' = settings.boost_until
  /\ Step("sched", CheckBranch(settings.boost_until, "cb_expire", "cb_clear", "cm_read"))
  /\ UNCHANGED <<settings, file, pump_on, pump_pin, now, want>>
  /\ UNCHANGED cellVars /\ UNCHANGED histVars
  /\ UNCHANGED rest

\* What the expiry branch of check_boost_timeout writes (lines 173-174).
BoostExpired(s) == [s EXCEPT !.boost_until = None, !.mode = "auto"]
\* What its except branch writes (line 179).
BoostCleared(s) == [s EXCEPT !.boost_until = None]

CbExpire ==
  /\ pc["sched"] = "cb_expire"
  /\ settings' = BoostExpired(settings)
  /\ save_settings(settings')
  /\ fired' = fired \cup {"boost"}
  /\ Step("sched", "cm_read")
  /\ UNCHANGED <<pump_on, pump_pin, now, want, dl, lastCmd, cmdAt, ncmd>>
  /\ UNCHANGED cellVars
  /\ UNCHANGED rest

CbClear ==
  /\ pc["sched"] = "cb_clear"
  /\ settings' = BoostCleared(settings)
  /\ save_settings(settings')
  /\ fired' = fired \cup {"boost"}
  /\ Step("sched", "cm_read")
  /\ UNCHANGED <<pump_on, pump_pin, now, want, dl, lastCmd, cmdAt, ncmd>>
  /\ UNCHANGED cellVars
  /\ UNCHANGED rest

\* check_manual_auto_off, lines 183-188.
CmRead ==
  /\ pc["sched"] = "cm_read"
  /\ dl' = settings.manual_on_until
  /\ Step("sched", CheckBranch(settings.manual_on_until, "cm_expire", "cm_clear", "rd_mode"))
  /\ UNCHANGED <<settings, file, pump_on, pump_pin, now, want>>
  /\ UNCHANGED cellVars /\ UNCHANGED histVars
  /\ UNCHANGED rest

\* (Variant used to test C2: the expiry forgets to reset manual_state.)
ManualExpiredKeepsState(s) ==
  [s EXCEPT !.manual_on_until = None, !.mode = "auto"]

\* Lines 190-192 and 197-198.
ManualExpired(s) ==
  [s EXCEPT !.manual_state = FALSE, !.manual_on_until = None, !.mode = "auto"]
ManualCleared(s) == [s EXCEPT !.manual_state = FALSE, !.manual_on_until = None]

CmExpire ==
  /\ pc["sched"] = "cm_expire"
  /\ settings' = ManualExpired(settings)
  /\ save_settings(settings')
  /\ fired' = fired \cup {"manual"}
  /\ Step("sched", "rd_mode")
  /\ UNCHANGED <<pump_on, pump_pin, now, want, dl, lastCmd, cmdAt, ncmd>>
  /\ UNCHANGED cellVars
  /\ UNCHANGED rest

CmClear ==
  /\ pc["sched"] = "cm_clear"
  /\ settings' = ManualCleared(settings)
  /\ save_settings(settings')
  /\ fired' = fired \cup {"manual"}
  /\ Step("sched", "rd_mode")
  /\ UNCHANGED <<pump_on, pump_pin, now, want, dl, lastCmd, cmdAt, ncmd>>
  /\ UNCHANGED cellVars
  /\ UNCHANGED rest

\* scheduler_task, lines 235-241: read the mode under the lock and pick the
\* function that applies it; any other mode goes straight to sleep.
SchedDispatch(mode) ==
  IF mode = "auto" THEN "ev_copy"
  ELSE IF mode \in {"manual", "boost"} THEN "ap_copy"
  ELSE "top"

RdMode ==
  /\ pc["sched"] = "rd_mode"
  /\ Step("sched", SchedDispatch(settings.mode))
  /\ UNCHANGED <<settings, file, pump_on, pump_pin, now, want, dl>>
  /\ UNCHANGED cellVars /\ UNCHANGED histVars
  /\ UNCHANGED rest

\* ------------------------------------------------------ applying the mode
\* (Variant used to test C6: the boost branch is missing.)
ApplyWantNoBoost(s) ==
  IF s.mode = "manual" THEN s.manual_state
  ELSE FALSE

\* apply_mode_on_change, lines 202-212, on the copy s of Settings: the
\* set_pump argument, or the call of evaluate_auto_schedule.
ApplyBranch(s) == IF s.mode = "auto" THEN "ev_copy" ELSE "sp_lock"
ApplyWant(s) ==
  IF s.mode = "manual" THEN s.manual_state
  ELSE IF s.mode = "boost" THEN TRUE
  ELSE FALSE

ApCopy(th) ==
  /\ pc[th] = "ap_copy"
  /\ want' = IF settings.mode = "auto" THEN want
             ELSE [want EXCEPT ![th] = ApplyWant(settings)]
  /\ Step(th, ApplyBranch(settings))
  /\ UNCHANGED <<settings, file, pump_on, pump_pin, now, dl>>
  /\ UNCHANGED cellVars /\ UNCHANGED histVars
  /\ UNCHANGED rest

\* evaluate_auto_schedule, lines 159-163: the copy's mode decides, the
\* schedule entry of the local hour is the set_pump argument.
AutoWant(s) == s.schedule[hour(now_local)]

EvCopy(th) ==
  /\ pc[th] = "ev_copy"
  /\ IF settings.mode = "auto"
       THEN /\ want' = [want EXCEPT ![th] = AutoWant(settings)]
            /\ Step(th, "sp_lock")
       ELSE /\ want' = want
            /\ Step(th, Top(th))
  /\ UNCHANGED <<settings, file, pump_on, pump_pin, now, dl>>
  /\ UNCHANGED cellVars /\ UNCHANGED histVars
  /\ UNCHANGED rest

\* set_pump, lines 148-149: pump_on is written under the lock ...
SpLock(th) ==
  /\ pc[th] = "sp_lock"
  /\ pump_on' = want[th]
  /\ Step(th, "sp_gpio")
  /\ UNCHANGED <<settings, file, pump_pin, now, want, dl>>
  /\ UNCHANGED cellVars /\ UNCHANGED histVars
  /\ UNCHANGED rest

\* ... and line 150: the relay pin is written after the lock is released.
SpGpio(th) ==
  /\ pc[th] = "sp_gpio"
  /\ pump_pin' = want[th]
  /\ Step(th, Top(th))
  /\ UNCHANGED <<settings, file, pump_on, now, want, dl>>
  /\ UNCHANGED cellVars /\ UNCHANGED histVars
  /\ UNCHANGED rest

\* ----------------------------------------------------------- the requests
\* History of a request that changes Settings; cmdAt is kept for the
\* requests that start a timer.
Command(name) ==
  /\ ncmd' = ncmd + 1
  /\ lastCmd' = name
  /\ cmdAt' = IF name \in {"boost", "manual_on"} THEN now ELSE 0
  /\ fired' = {}

\* /set, lines 442-447.
SetModeWrite(s, mode) ==
  IF mode = "boost"
    THEN [s EXCEPT !.mode = mode,
                   !.boost_until = isoformat(now_local + BOOST_HOURS * HOUR)]
    ELSE [s EXCEPT !.mode = mode]

set_mode(mode) ==
  /\ pc["web"] = "idle"
  /\ settings' = SetModeWrite(settings, mode)
  /\ save_settings(settings')
  /\ Command(mode)
  /\ Step("web", "ap_copy")
  /\ UNCHANGED <<pump_on, pump_pin, now, want, dl>>
  /\ UNCHANGED cellVars
  /\ UNCHANGED rest

\* (Variant used to test C20: manual ON is stored without its deadline.)
ManualWriteNoDeadline(s, on) ==
  [s EXCEPT !.manual_state = on, !.manual_on_until = None, !.mode = "manual"]

\* /manual, lines 454-462.
ManualWrite(s, on) ==
  [s EXCEPT !.manual_state = on,
            !.manual_on_until =
               IF on THEN isoformat(now_local + MANUAL_AUTO_OFF_HOURS * HOUR)
                     ELSE None,
            !.mode = "manual"]

manual_toggle(on) ==
  /\ pc["web"] = "idle"
  /\ settings' = ManualWrite(settings, on)
  /\ save_settings(settings')
  /\ Command(IF on THEN "manual_on" ELSE "manual_off")
  /\ Step("web", "ap_copy")
  /\ UNCHANGED <<pump_on, pump_pin, now, want, dl>>
  /\ UNCHANGED cellVars
  /\ UNCHANGED rest

\* /save_schedule, lines 468-472: the 24 entries are overwritten in place.
save_schedule(sch) ==
  /\ pc["web"] = "idle"
  /\ settings' = [settings EXCEPT !.schedule = sch]
  /\ save_settings(settings')
  /\ Command("schedule")
  /\ Step("web", "idle")
  /\ UNCHANGED <<pump_on, pump_pin, now, want, dl>>
  /\ UNCHANGED cellVars
  /\ UNCHANGED rest

\* /set_dst, lines 484-487. The history keeps the last request that
\* changed the mode or started a timer.
set_dst(on) ==
  /\ pc["web"] = "idle"
  /\ settings' = [settings EXCEPT !.dst = on]
  /\ save_settings(settings')
  /\ ncmd' = ncmd + 1
  /\ Step("web", "idle")
  /\ UNCHANGED <<pump_on, pump_pin, now, want, dl, lastCmd, cmdAt, fired>>
  /\ UNCHANGED cellVars
  /\ UNCHANGED rest

\* -------------------------------------------------------------------- /pwm
\* The values of the JSON field `duty` of /pwm: integers from below 0 to
\* above 100.
Duties == (0 - MaxOver) .. (100 + MaxOver)

\* (Variant used to test C12: only the upper limit is enforced.)
ClampUpperOnly(d) == IF d > 100 THEN 100 ELSE d

\* set_pwm, line 130: max(0, min(100, int(duty))).
Clamp(d) ==
  LET m == IF 100 < d THEN 100 ELSE d
  IN IF 0 > m THEN 0 ELSE m

\* pwm_route, lines 477-478: duty = int(data.get("duty", 0)).
pwm_route(d) ==
  /\ pc["web"] = "idle"
  /\ duty' = d
  /\ Step("web", "pw_store")
  /\ UNCHANGED <<settings, file, pump_on, pump_pin, now, want, dl, pwm_hw,
                 pwmResp>>
  /\ UNCHANGED cellVars /\ UNCHANGED histVars
  /\ UNCHANGED <<bootVars, lockVars>>

\* set_pwm, lines 130-133: the clamped value is stored and saved under the
\* lock.
PwStore ==
  /\ pc["web"] = "pw_store"
  /\ settings' = [settings EXCEPT !.pwm_duty = Clamp(duty)]
  /\ save_settings(settings')
  /\ Step("web", "pw_hw")
  /\ UNCHANGED <<pump_on, pump_pin, now, want, dl>>
  /\ UNCHANGED pwmVars /\ UNCHANGED cellVars /\ UNCHANGED histVars
  /\ UNCHANGED <<bootVars, lockVars>>

\* set_pwm, lines 134-137: the clamped value goes to the PWM output (GPIO
\* present), after the lock is released.
PwHw ==
  /\ pc["web"] = "pw_hw"
  /\ pwm_hw' = Clamp(duty)
  /\ Step("web", "pw_ret")
  /\ UNCHANGED <<settings, file, pump_on, pump_pin, now, want, dl, duty,
                 pwmResp>>
  /\ UNCHANGED cellVars /\ UNCHANGED histVars
  /\ UNCHANGED <<bootVars, lockVars>>

\* pwm_route, line 480: return jsonify({"pwm_duty": duty}) with the local
\* `duty` of pwm_route.
PwReturn ==
  /\ pc["web"] = "pw_ret"
  /\ pwmResp' = <<duty>>
  /\ Step("web", "idle")
  /\ UNCHANGED <<settings, file, pump_on, pump_pin, now, want, dl, duty,
                 pwm_hw>>
  /\ UNCHANGED cellVars /\ UNCHANGED histVars
  /\ UNCHANGED <<bootVars, lockVars>>

\* ----------------------------------------------------------------- /status
\* int(delta.total_seconds()): truncation towards zero.
TotalSeconds(delta) ==
  IF delta >= 0 THEN delta \div SECOND ELSE -((-delta) \div SECOND)
\* divmod(seconds, 3600) and divmod(r, 60), lines 407-408.
HMS(seconds) == <<seconds \div 3600, (seconds % 3600) \div 60, (seconds % 3600) % 60>>

\* Lines 411-412 and 423-425: what /status writes into its copy s.
StatusBoostExpired(s) == [s EXCEPT !.boost_until = None, !.mode = "auto"]
StatusManualExpired(s) ==
  [s EXCEPT !.manual_state = FALSE, !.manual_on_until = None, !.mode = "auto"]

\* Lines 402-413 on the copy s: the copy afterwards, boost_remaining,
\* whether save_settings(s) ran and whether fromisoformat raised.
StatusBoost(s) ==
  IF ~(s.mode = "boost" /\ Truthy(s.boost_until))
    THEN [s |-> s, rem |-> <<>>, saved |-> FALSE, err |-> FALSE]
  ELSE IF ~Parses(s.boost_until)
    THEN [s |-> s, rem |-> <<>>, saved |-> FALSE, err |-> TRUE]
  ELSE IF TotalSeconds(fromisoformat(s.boost_until) - now_local) > 0
    THEN [s |-> s,
          rem |-> HMS(TotalSeconds(fromisoformat(s.boost_until) - now_local)),
          saved |-> FALSE, err |-> FALSE]
  ELSE [s |-> StatusBoostExpired(s), rem |-> <<>>, saved |-> TRUE, err |-> FALSE]

\* Lines 414-426 on the copy s.
StatusManual(s) ==
  IF ~(s.manual_state /\ Truthy(s.manual_on_until))
    THEN [s |-> s, rem |-> <<>>, saved |-> FALSE, err |-> FALSE]
  ELSE IF ~Parses(s.manual_on_until)
    THEN [s |-> s, rem |-> <<>>, saved |-> FALSE, err |-> TRUE]
  ELSE IF TotalSeconds(fromisoformat(s.manual_on_until) - now_local) > 0
    THEN [s |-> s,
          rem |-> HMS(TotalSeconds(fromisoformat(s.manual_on_until) - now_local)),
          saved |-> FALSE, err |-> FALSE]
  ELSE [s |-> StatusManualExpired(s), rem |-> <<>>, saved |-> TRUE, err |-> FALSE]

\* The response of /status to Settings s0: an uncaught exception of
\* fromisoformat is a 500 without a body, otherwise the dictionary `data`
\* of lines 427-436.
StatusData(s0) ==
  LET b == StatusBoost(s0)
      m == StatusManual(b.s)
  IN IF b.err \/ m.err
       THEN [NoResp EXCEPT !.code = 500]
       ELSE [code |-> 200, mode |-> m.s.mode, pump_on |-> pump_on,
             cell_on |-> cell_on, pwm_duty |-> m.s.pwm_duty,
             boost_remaining |-> b.rem, manual_remaining |-> m.rem]

\* What /status leaves in settings.json: the copy as saved by the last
\* save_settings(s) that ran before the handler returned or raised.
StatusFile(s0) ==
  LET b == StatusBoost(s0)
      m == StatusManual(b.s)
  IN IF ~b.err /\ m.saved THEN m.s
     ELSE IF b.saved THEN b.s
     ELSE file

\* /status, lines 400-437: the whole handler runs under the lock, on a copy
\* of state["settings"]; the dictionary in memory is not written.
status ==
  /\ pc["web"] = "idle"
  /\ resp' = StatusData(settings)
  /\ file' = StatusFile(settings)
  /\ UNCHANGED <<settings, pump_on, pump_pin, now, pc, want, dl>>
  /\ UNCHANGED cellVars /\ UNCHANGED histVars
  /\ UNCHANGED rest

\* ---------------------------------------------------------------- cell loop
\* (Variants used to test C8 and C9: the bridge follows the clock alone;
\* the relays are written on the first iteration only.)
CellStateIgnoresPump(pump, m) == (m \div CELL_WINDOW_MINUTES) % 2 = 0
CellEdgeFirstOnly(last, v) == last = <<>>

\* Lines 220-224.
CellState(pump, m) == pump /\ (m \div CELL_WINDOW_MINUTES) % 2 = 0
\* Line 225.
CellEdge(last, v) == last = <<>> \/ last # <<v>>

\* cell_task, lines 218-225: read pump_on under the lock, derive the bridge
\* state from the epoch minute, and decide whether to write it.
CellRead ==
  /\ pc["cell"] = "top"
  /\ pumpRead' = pump_on
  /\ epoch_min' = IF pump_on THEN now \div MINUTE ELSE 0
  /\ cell_state' = CellState(pumpRead', epoch_min')
  /\ Step("cell", IF CellEdge(last_state, cell_state') THEN "set_cell" ELSE "top")
  /\ UNCHANGED <<settings, file, pump_on, pump_pin, cell_on, now, want, dl,
                 last_state>>
  /\ UNCHANGED histVars
  /\ UNCHANGED rest

\* Lines 226-227: set_cell(cell_state) and last_state = cell_state.
CellSet ==
  /\ pc["cell"] = "set_cell"
  /\ cell_on' = cell_state
  /\ last_state' = <<cell_state>>
  /\ Step("cell", "top")
  /\ UNCHANGED <<settings, file, pump_on, pump_pin, now, want, dl, pumpRead,
                 epoch_min, cell_state>>
  /\ UNCHANGED histVars
  /\ UNCHANGED rest

\* ---------------------------------------------------------- the state lock
\* The lock skeleton of the program: for every function that takes
\* state_lock, or calls one that does, the sequences of lock operations and
\* calls its paths execute. "acq" and "rel" are the entry and the exit of a
\* `with state_lock:` block (the exit is taken on an exception too), a
\* function name is a call, "raise" is an exception that leaves the
\* operation (scheduler_task catches it and sleeps, Flask answers 500).
\* What a block calls inside (save_settings, now_local, fromisoformat, dict
\* methods) takes no lock and is left out.
WithLock == <<"acq", "rel">>

set_pwm_locks == {WithLock, WithLock \o <<"raise">>}
set_pump_locks == {WithLock}
set_cell_locks == {WithLock}
evaluate_auto_schedule_locks == {WithLock, WithLock \o <<"set_pump">>}
\* Lines 166-180: the read; then the expiry block or, when fromisoformat or
\* the save of the expiry block raises, the block of the except branch,
\* whose own save may raise out of the function.
check_boost_timeout_locks ==
  { WithLock,
    WithLock \o WithLock,
    WithLock \o WithLock \o <<"raise">>,
    WithLock \o WithLock \o WithLock,
    WithLock \o WithLock \o WithLock \o <<"raise">> }
check_manual_auto_off_locks ==
  { WithLock,
    WithLock \o WithLock,
    WithLock \o WithLock \o <<"raise">>,
    WithLock \o WithLock \o WithLock,
    WithLock \o WithLock \o WithLock \o <<"raise">> }
apply_mode_on_change_locks ==
  {WithLock \o <<"set_pump">>, WithLock \o <<"evaluate_auto_schedule">>}
\* One iteration of each loop.
cell_task_locks == {WithLock, WithLock \o <<"set_cell">>}
\* Lines 233-236, and lines 237-240: what the mode read selects.
scheduler_task_locks ==
  {<<"check_boost_timeout", "check_manual_auto_off">> \o WithLock \o <<"dispatch">>}
dispatch_locks == {<<>>, <<"evaluate_auto_schedule">>, <<"apply_mode_on_change">>}
heartbeat_task_locks == {WithLock \o WithLock}
\* The request handlers.
index_locks == {WithLock}
\* (Variant used to test C19: /status runs the expiry checks inside its
\* block.)
status_locks_nested ==
  {<<"acq", "check_boost_timeout", "check_manual_auto_off", "rel">>}
status_locks == {WithLock, WithLock \o <<"raise">>}
set_mode_locks ==
  {WithLock \o <<"apply_mode_on_change">>, WithLock \o <<"raise">>}
manual_toggle_locks ==
  {WithLock \o <<"apply_mode_on_change">>, WithLock \o <<"raise">>}
save_schedule_locks == {WithLock, WithLock \o <<"raise">>}
pwm_route_locks == {<<"set_pwm">>, <<"raise">>}
set_dst_locks == {WithLock, WithLock \o <<"raise">>}

Handlers == {"index", "status", "set_mode", "manual_toggle", "save_schedule",
             "pwm_route", "set_dst"}
Functions ==
  Handlers \cup
  {"set_pwm", "set_pump", "set_cell", "evaluate_auto_schedule",
   "check_boost_timeout", "check_manual_auto_off", "apply_mode_on_change",
   "cell_task", "scheduler_task", "dispatch", "heartbeat_task"}

Locks(f) ==
  CASE f = "set_pwm" -> set_pwm_locks
    [] f = "set_pump" -> set_pump_locks
    [] f = "set_cell" -> set_cell_locks
    [] f = "evaluate_auto_schedule" -> evaluate_auto_schedule_locks
    [] f = "check_boost_timeout" -> check_boost_timeout_locks
    [] f = "check_manual_auto_off" -> check_manual_auto_off_locks
    [] f = "apply_mode_on_change" -> apply_mode_on_change_locks
    [] f = "cell_task" -> cell_task_locks
    [] f = "scheduler_task" -> scheduler_task_locks
    [] f = "dispatch" -> dispatch_locks
    [] f = "heartbeat_task" -> heartbeat_task_locks
    [] f = "index" -> index_locks
    [] f = "status" -> status_locks
    [] f = "set_mode" -> set_mode_locks
    [] f = "manual_toggle" -> manual_toggle_locks
    [] f = "save_schedule" -> save_schedule_locks
    [] f = "pwm_route" -> pwm_route_locks
    [] f = "set_dst" -> set_dst_locks

\* What a thread runs: the loop of its target, or any request handler.
Entry(th) ==
  CASE th = "sched" -> {"scheduler_task"}
    [] th = "cell" -> {"cell_task"}
    [] th = "hb" -> {"heartbeat_task"}
    [] th = "web" -> Handlers

\* The next thing thread th executes.
At(th, what) == todo[th] # <<>> /\ Head(todo[th]) = what

\* The next iteration of a loop, or the next request, starts on one of its
\* paths.
LkBegin(th) ==
  /\ todo[th] = <<>>
  /\ \E f \in Entry(th) : \E path \in Locks(f) :
       todo' = [todo EXCEPT ![th] = path]
  /\ UNCHANGED <<lock, ctlVars, pwmVars, bootVars>>

\* A call: the callee runs one of its paths.
LkCall(th) ==
  /\ todo[th] # <<>> /\ Head(todo[th]) \in Functions
  /\ \E path \in Locks(Head(todo[th])) :
       todo' = [todo EXCEPT ![th] = path \o Tail(todo[th])]
  /\ UNCHANGED <<lock, ctlVars, pwmVars, bootVars>>

\* threading.Lock is not reentrant: acquire blocks while the lock is held,
\* whoever holds it.
LkAcquire(th) ==
  /\ At(th, "acq")
  /\ lock = "free"
  /\ lock' = th
  /\ todo' = [todo EXCEPT ![th] = Tail(todo[th])]
  /\ UNCHANGED <<ctlVars, pwmVars, bootVars>>

LkRelease(th) ==
  /\ At(th, "rel")
  /\ lock' = "free"
  /\ todo' = [todo EXCEPT ![th] = Tail(todo[th])]
  /\ UNCHANGED <<ctlVars, pwmVars, bootVars>>

LkRaise(th) ==
  /\ At(th, "raise")
  /\ todo' = [todo EXCEPT ![th] = <<>>]
  /\ UNCHANGED <<lock, ctlVars, pwmVars, bootVars>>

\* ------------------------------------------------------------------ the clock
Tick(d) ==
  /\ now' = now + d
  /\ resp' = NoResp
  /\ UNCHANGED <<settings, file, pump_on, pump_pin, pc, want, dl>>
  /\ UNCHANGED cellVars /\ UNCHANGED histVars
  /\ UNCHANGED rest

\* Serial specification: time passes between operations. The clock is
\* observed on every full hour and one clock tick before it.
Advance ==
  \E d \in {1, HOUR - 1, HOUR} :
    /\ now + d <= MaxHours * HOUR
    /\ (now + d) % HOUR \in {0, HOUR - 1}
    /\ Tick(d)

\* Interleaved specification: time passes at any point, by a quarter of an
\* hour.
AdvanceQuarter ==
  /\ now + 15 * MINUTE <= MaxQuarters * 15 * MINUTE
  /\ Tick(15 * MINUTE)

\* ------------------------------------------------------------ specifications
Idle(th) == pc[th] = Top(th)
\* Thread th may take a step of the serial specification: no other thread
\* is inside an operation.
Alone(th) == \A o \in Threads \ {th} : Idle(o)

SchedulerCheck == CbRead \/ CbExpire \/ CbClear \/ CmRead \/ CmExpire \/ CmClear
SchedulerApply ==
  RdMode \/ ApCopy("sched") \/ EvCopy("sched") \/ SpLock("sched") \/ SpGpio("sched")
ModeRequest ==
  \/ \E mode \in Modes : set_mode(mode)
  \/ \E on \in BOOLEAN : manual_toggle(on)
ScheduleRequest == \E sch \in Schedules : save_schedule(sch)
RequestApply == ApCopy("web") \/ EvCopy("web") \/ SpLock("web") \/ SpGpio("web")

Next ==
  \/ Alone("sched") /\ SchedulerCheck
  \/ Alone("sched") /\ SchedulerApply
  \/ Alone("web") /\ ncmd < MaxCmds /\ ModeRequest
  \/ Alone("web") /\ status
  \/ Alone("web") /\ RequestApply
  \/ (\A th \in Threads : Idle(th)) /\ Advance

Spec == Init /\ [][Next]_vars

NextConc ==
  \/ SchedulerCheck
  \/ SchedulerApply
  \/ ncmd < MaxCmdsConc /\ ModeRequest
  \/ ncmd < MaxCmdsConc /\ ScheduleRequest
  \/ RequestApply
  \/ CellRead
  \/ CellSet
  \/ AdvanceQuarter

SpecConc == InitConc /\ [][NextConc]_vars

\* The scheduler interleaved freely with a handler thread that serves mode
\* requests and /status, without the cell loop.
NextTimers ==
  \/ SchedulerCheck
  \/ SchedulerApply
  \/ ncmd < MaxCmds /\ ModeRequest
  \/ RequestApply
  \/ status
  \/ AdvanceQuarter

SpecTimers == InitConc /\ [][NextTimers]_vars

\* One boost or manual ON request, and /set_dst requests before and after
\* it; operations run one at a time.
InitDst == Start(LoadedDocs \cup {[DEFAULT_SETTINGS EXCEPT !.dst = TRUE]})
TimerRequest == set_mode("boost") \/ manual_toggle(TRUE)
DstRequest == \E on \in BOOLEAN : set_dst(on)

NextDst ==
  \/ Alone("sched") /\ SchedulerCheck
  \/ Alone("sched") /\ SchedulerApply
  \/ Alone("web") /\ lastCmd = "none" /\ TimerRequest
  \/ Alone("web") /\ ncmd < MaxCmds /\ DstRequest
  \/ Alone("web") /\ RequestApply
  \/ (\A th \in Threads : Idle(th)) /\ Advance

SpecDst == InitDst /\ [][NextDst]_vars

\* The lock skeleton, all threads interleaved. A thread inside a block
\* runs to the end of the block, and a thread blocked in acquire gets the
\* lock if it is free again and again (the loops sleep between their
\* blocks, a request ends).
NextLock ==
  \/ \E th \in LockThreads : LkBegin(th)
  \/ \E th \in LockThreads : LkCall(th)
  \/ \E th \in LockThreads : LkAcquire(th)
  \/ \E th \in LockThreads : LkRelease(th)
  \/ \E th \in LockThreads : LkRaise(th)

SpecLock ==
  /\ Start({DEFAULT_SETTINGS})
  /\ [][NextLock]_vars
  /\ \A th \in LockThreads : WF_vars(LkRelease(th)) /\ SF_vars(LkAcquire(th))

\* Start-up: load_settings() on whatever document is on disk.
NextLoad == Boot
SpecLoad == InitLoad /\ [][NextLoad]_vars

\* /pwm requests, one at a time.
NextPwm ==
  \/ (\E d \in Duties : pwm_route(d))
  \/ PwStore
  \/ PwHw
  \/ PwReturn

\* load_settings() does not clamp: a document may hold any pwm_duty.
InitPwm ==
  Start(LoadedDocs \cup {[DEFAULT_SETTINGS EXCEPT !.pwm_duty = 100 + MaxOver]})
SpecPwm == InitPwm /\ [][NextPwm]_vars

\* ======================================================== the claims
AllIdle == \A th \in Threads : Idle(th)
\* The scheduler has just returned from check_boost_timeout /
\* check_manual_auto_off.
BoostCheckDone == pc["sched"] = "cm_read"
ManualCheckDone == pc["sched"] = "rd_mode"
\* Local time of the last timer request, when the DST flag has not changed
\* since.
CmdLocal == cmdAt + (TIMEZONE_OFFSET + (IF settings.dst THEN 1 ELSE 0)) * HOUR

\* C1 -- Boost auto-off. After /set mode=boost handled at time t, with no
\* other write of Settings in between, a boost-expiry check run at or after
\* t + 3h leaves mode = auto and boost_until = None, and one run before
\* t + 3h leaves mode = boost and boost_until as /set stored it.
C1_BoostAutoOff ==
  (BoostCheckDone /\ lastCmd = "boost") =>
    /\ now >= cmdAt + 3 * HOUR =>
         settings.mode = "auto" /\ settings.boost_until = None
    /\ (now < cmdAt + 3 * HOUR /\ fired = {}) =>
         /\ settings.mode = "boost"
         /\ settings.boost_until = isoformat(CmdLocal + 3 * HOUR)

\* C1 witness: the check has just reverted an expired boost to auto.
C1_Witness ==
  /\ BoostCheckDone /\ lastCmd = "boost" /\ fired = {"boost"}
  /\ now = cmdAt + 3 * HOUR
  /\ settings.mode = "auto" /\ settings.boost_until = None

\* C2 -- Manual auto-off. After /manual state=on handled at time t, with no
\* other write of Settings in between, a manual-expiry check run at or after
\* t + 8h leaves mode = auto, manual_state = FALSE and manual_on_until =
\* None, and one run before t + 8h leaves mode = manual, manual_state = TRUE
\* and manual_on_until as /manual stored it.
C2_ManualAutoOff ==
  (ManualCheckDone /\ lastCmd = "manual_on") =>
    /\ now >= cmdAt + 8 * HOUR =>
         /\ settings.mode = "auto"
         /\ settings.manual_state = FALSE
         /\ settings.manual_on_until = None
    /\ (now < cmdAt + 8 * HOUR /\ fired = {}) =>
         /\ settings.mode = "manual"
         /\ settings.manual_state = TRUE
         /\ settings.manual_on_until = isoformat(CmdLocal + 8 * HOUR)

\* C2 witness: the check has just reverted an expired manual ON to auto.
C2_Witness ==
  /\ ManualCheckDone /\ lastCmd = "manual_on" /\ fired = {"manual"}
  /\ now >= cmdAt + 8 * HOUR
  /\ settings.mode = "auto" /\ ~settings.manual_state

\* C3 -- Manual OFF is sticky. Once /manual state=off has completed and no
\* request follows it, after every scheduler tick mode is still manual and
\* the pump is off, whatever was requested before.
C3_ManualOffSticky ==
  (lastCmd = "manual_off" /\ AllIdle) =>
    settings.mode = "manual" /\ ~pump_on

\* C4 -- Fixed boost window. Once /set mode=boost handled at time t has
\* completed and no request follows it, at every time before t + 3h, after
\* every scheduler tick, mode is boost and the pump is on, whatever was
\* requested before t.
C4_FixedBoostWindow ==
  (lastCmd = "boost" /\ AllIdle /\ now < cmdAt + 3 * HOUR) =>
    settings.mode = "boost" /\ pump_on

\* C5 -- An unparseable deadline is treated like an expired one. When the
\* boost (manual) expiry check has read a deadline that does not parse, it
\* leaves the deadline None and mode = auto (and manual_state = FALSE).
C5_UnparseableIsExpiry ==
  /\ (BoostCheckDone /\ dl = Unparseable) =>
       settings.boost_until = None /\ settings.mode = "auto"
  /\ (ManualCheckDone /\ dl = Unparseable) =>
       /\ settings.manual_on_until = None
       /\ settings.mode = "auto"
       /\ ~settings.manual_state

\* What the pump must be for the mode, at the local hour of the clock.
PumpFollowsMode ==
  /\ settings.mode = "manual" => pump_on = settings.manual_state
  /\ settings.mode = "auto" =>
       pump_on = settings.schedule[((now \div HOUR) + 10
                                     + (IF settings.dst THEN 1 ELSE 0)) % 24]
  /\ settings.mode = "boost" => pump_on = TRUE

\* C6 -- Pump follows mode after a tick. The step that ends a scheduler
\* tick which ran without a concurrent operation leaves pump_on equal to
\* manual_state in manual mode, to the schedule entry of the local hour in
\* auto mode, and TRUE in boost mode.
C6_PumpFollowsMode ==
  [][(pc["sched"] # "top" /\ pc'["sched"] = "top") => PumpFollowsMode']_vars

\* C6 witness: before any request, a tick has switched the pump on for a
\* boost found in settings.json.
C6_Witness ==
  /\ AllIdle /\ ncmd = 0
  /\ settings.mode = "boost" /\ pump_on /\ pump_pin

\* C7 -- Fail-safe OFF for an unknown mode. Once /set has stored a mode
\* outside {auto, manual, boost}, its handler has returned and the
\* scheduler tick that was in flight has finished, the pump is off.
C7_UnknownModeOff ==
  (lastCmd = "other" /\ Idle("web") /\ Idle("sched")) => ~pump_on

\* C8 -- The cell bridge is never on while the pump is off.
C8_CellImpliesPump == cell_on => pump_on

\* C8 as amended -- after every completed iteration of the cell loop, the
\* bridge is on only if that iteration read pump_on = TRUE.
C8_CellImpliesPumpRead == (Idle("cell") /\ cell_on) => pumpRead

\* C8 witness: an iteration has switched the bridge on for a running pump.
C8_Witness == Idle("cell") /\ cell_on /\ pumpRead /\ pump_on

\* C9 -- Cell-bridge derivation. After every iteration of the cell loop,
\* cell_on is ((m div 15) mod 2 = 0) when the iteration read pump_on = TRUE
\* at epoch minute m and FALSE when it read pump_on = FALSE, whether or not
\* the iteration wrote the relays.
C9_CellDerivation ==
  (Idle("cell") /\ last_state # <<>>) =>
    cell_on = (pumpRead /\ (epoch_min \div 15) % 2 = 0)

\* C9 witness: the bridge is back on in the third quarter of an hour,
\* after having been off in the second.
C9_Witness ==
  /\ Idle("cell") /\ last_state = <<TRUE>> /\ cell_on
  /\ pumpRead /\ epoch_min = 30

\* A deadline of Settings has passed (no scheduler tick has run since, or
\* it would have cleared the deadline).
BoostPassed ==
  /\ settings.mode = "boost" /\ Parses(settings.boost_until)
  /\ now_local >= fromisoformat(settings.boost_until)
ManualPassed ==
  /\ settings.manual_state /\ Parses(settings.manual_on_until)
  /\ now_local >= fromisoformat(settings.manual_on_until)

\* C10 -- /status reports the auto fallback on its own. A /status response
\* computed after a boost or manual deadline has passed has mode = auto and
\* both remaining times null; one computed while mode is boost and more
\* than a second remains has mode = boost and a boost_remaining. (Only the
\* requests that are answered with a body are held to it: a stored deadline
\* that does not parse makes the handler raise.)
C10_StatusFallback ==
  resp.code = 200 =>
    /\ (BoostPassed \/ ManualPassed) =>
         /\ resp.mode = "auto"
         /\ resp.boost_remaining = <<>>
         /\ resp.manual_remaining = <<>>
    /\ (/\ settings.mode = "boost" /\ Parses(settings.boost_until)
        /\ fromisoformat(settings.boost_until) - now_local > SECOND) =>
         resp.mode = "boost" /\ resp.boost_remaining # <<>>

\* The step is a /status request answered with a body.
StatusAnswered == resp'.code = 200

\* C11 -- The read path and the periodic path converge. After a /status
\* request that finds a passed boost deadline, Settings in memory have
\* mode = auto and boost_until = None; after one that finds a passed manual
\* deadline, they have manual_state = FALSE and manual_on_until = None.
C11_StatusConverges ==
  [][StatusAnswered =>
       /\ BoostPassed =>
            settings'.mode = "auto" /\ settings'.boost_until = None
       /\ ManualPassed =>
            ~settings'.manual_state /\ settings'.manual_on_until = None]_vars

\* C15 -- Persisted settings track the settings in memory. Whenever an
\* operation that writes settings.json has completed and no operation is in
\* progress, the document equals Settings in memory (last_updated aside).
C15_PersistedTracksMemory ==
  (AllIdle /\ (ncmd > 0 \/ fired # {} \/ resp.code # 0)) => file = settings

\* C16 -- pump_on records the relay. Whenever no thread is inside a
\* set_pump call, pump_on is the level last written to the pump pin.
C16_PumpOnRecordsRelay ==
  (\A th \in {"sched", "web"} : pc[th] \notin {"sp_lock", "sp_gpio"}) =>
    pump_on = pump_pin

\* C18 -- Expiry acts on the deadline it tested. When check_boost_timeout
\* (check_manual_auto_off) writes Settings, the deadline stored at that
\* moment is the one the check read and compared with the clock.
C18_ExpiryActsOnTested ==
  [][/\ (pc["sched"] = "cb_expire" /\ pc'["sched"] = "cm_read")
          => settings.boost_until = dl
     /\ (pc["sched"] = "cm_expire" /\ pc'["sched"] = "rd_mode")
          => settings.manual_on_until = dl]_vars

\* C20 -- Manual ON always carries a deadline: Settings in memory never
\* have manual_state = TRUE with manual_on_until = None.
C20_ManualOnHasDeadline ==
  settings.manual_state => settings.manual_on_until # None

\* C20 witness: an expiry check that had read the passed deadline of an
\* earlier manual ON wrote Settings after a new /manual state=on.
C20_Witness ==
  /\ lastCmd = "manual_on" /\ fired = {"manual"}
  /\ ~settings.manual_state /\ settings.manual_on_until = None

\* C12 -- PWM clamping. Once set_pwm(duty) has stored its value, the stored
\* pwm_duty is min(100, max(0, duty)); after any sequence of /pwm requests
\* the stored pwm_duty is within 0 .. 100.
C12_PwmClamped ==
  /\ pc["web"] \in {"pw_hw", "pw_ret"} =>
       settings.pwm_duty = (IF duty < 0 THEN 0 ELSE IF duty > 100 THEN 100 ELSE duty)
  /\ pwmResp # <<>> => settings.pwm_duty \in 0 .. 100

\* C12 witness: after a first request, a request above 100 has been stored
\* as 100.
C12_Witness ==
  /\ pc["web"] = "pw_ret" /\ pwmResp # <<>>
  /\ duty > 100 /\ settings.pwm_duty = 100 /\ pwm_hw = 100

\* C13 -- /pwm returns the accepted value: the pwm_duty of the response is
\* the clamped value the request stored in Settings.
C13_PwmReturnsStored ==
  (pc["web"] = "idle" /\ pwmResp # <<>>) => pwmResp[1] = settings.pwm_duty

\* The schedule of 24 entries a JSON list of 24 booleans stands for.
AsSchedule(sv) == [h \in Hours |-> sv.v[h + 1]]

\* C14 -- Schedule normalisation on load. Loading a document that is a JSON
\* object gives the stored schedule when that is a list of 24 entries and
\* 24 FALSE entries otherwise (no schedule, a list of another length, not a
\* list); every other key keeps its stored value when the document has it
\* and takes its default when not.
C14_ScheduleNormalised ==
  (boot = "loaded" /\ doc.kind = "object") =>
    /\ settings.schedule =
         IF /\ "schedule" \in doc.has
            /\ doc.schedule.k = "list"
            /\ Len(doc.schedule.v) = 24
           THEN AsSchedule(doc.schedule)
           ELSE AllOff
    /\ \A k \in Keys \ {"schedule"} :
         settings[k] = IF k \in doc.has THEN doc.val[k] ELSE DEFAULT_SETTINGS[k]

\* C17 -- Toggling DST does not move a pending deadline. With one boost
\* (manual ON) request handled at time t and otherwise only /set_dst
\* requests, a boost-expiry (manual-expiry) check run at or after t + 3h
\* (t + 8h) leaves mode = auto and the deadline None, and one run before
\* leaves mode = boost (manual) and the deadline in place.
C17_DstKeepsDeadline ==
  /\ (BoostCheckDone /\ lastCmd = "boost") =>
       IF now >= cmdAt + 3 * HOUR
         THEN settings.mode = "auto" /\ settings.boost_until = None
         ELSE settings.mode = "boost" /\ settings.boost_until # None
  /\ (ManualCheckDone /\ lastCmd = "manual_on") =>
       IF now >= cmdAt + 8 * HOUR
         THEN settings.mode = "auto" /\ settings.manual_on_until = None
         ELSE settings.mode = "manual" /\ settings.manual_on_until # None

\* C19 -- No deadlock on the state lock. No thread reaches an acquire of
\* state_lock while it holds the lock, no thread holds the lock once its
\* operation has ended (normally or by an exception), and every thread that
\* waits for the lock eventually holds it.
C19_NoDeadlock ==
  /\ [](\A th \in LockThreads : At(th, "acq") => lock # th)
  /\ [](\A th \in LockThreads : todo[th] = <<>> => lock # th)
  /\ \A th \in LockThreads : At(th, "acq") ~> (lock = th)

\* C19 witness: the scheduler, inside the set_pump call that ends its tick,
\* waits for the lock while a request handler holds it and the cell loop
\* waits too.
C19_Witness ==
  /\ lock = "web"
  /\ todo["sched"] = WithLock
  /\ At("cell", "acq")

====
